---- MODULE Spec2Model ----
(***************************************************************************)
(* A model of the course-catalog tools of grove: the record segmenter      *)
(* (parse_courses), the prerequisite extractor (parse_prerequisites), the  *)
(* academic-level classifier (is_graduate_course), the lookup helpers and  *)
(* the eligibility engine of tech_elect_map.py; the filters of the         *)
(* command-line tool (grove.py, tech_elect_cli.py); the request handlers,  *)
(* the dependency graphs and the catalog cache of course_api.py.           *)
(*                                                                         *)
(* A Python str is modelled as the sequence of its characters, each        *)
(* character a one-character string, so that the regular expressions and   *)
(* the substring tests of the source are computed character by character.  *)
(***************************************************************************)
EXTENDS Integers, Sequences, FiniteSets, TLC

VARIABLES
    text,             \* the catalog text handed to parse_courses
    lines,            \* parse_courses: text.split('\n')
    i,                \* parse_courses: index of the line the loop is at
    current_course,   \* parse_courses: the record being built ({} = <<>>)
    current_majors,   \* parse_courses: the last major-marker line seen
    courses,          \* parse_courses: the records committed so far
    description,      \* the text handed to parse_prerequisites
    prereqs,          \* the list parse_prerequisites returned
    op,               \* the last request served: "none", "search", "eligible",
                      \* "graph", "courses", "stats", or "error" when its
                      \* handler raised
    req_major,        \* the major of the last request (None if not given)
    req_completed,    \* the completed courses of the last request
    req_level,        \* the academic level of the last request
    records,          \* the courses handed to get_eligible_courses
    matching_courses, \* what search_courses_by_major returned
    eligible,         \* what get_eligible_courses returned
    graph,            \* the graph a graph request built
    course_list,      \* the payload of a course-list request
    stats,            \* the payload of a statistics request
    args,             \* the command line of the CLI, as argparse reads it
    filtered_courses, \* the CLI: the courses left after its filters
    course_history,   \* the CLI: the completed courses of --course-history
    progress,         \* the CLI: the counts display_stats printed under
                      \* "Your Progress"
    course_data,      \* course_api.py: the global cache (None when empty)
    handler,          \* the request handlers inside load_course_data
    parse_calls,      \* how many times parse_courses ran for the cache
    pc                \* position of the program

parseVars == <<text, lines, i, current_course, current_majors, courses>>
prereqVars == <<description, prereqs>>
requestVars == <<op, req_major, req_completed, req_level, records,
                 matching_courses, eligible, graph, course_list, stats>>
cliVars == <<args, filtered_courses, course_history, progress>>
cacheVars == <<course_data, handler, parse_calls>>

vars == <<parseVars, prereqVars, requestVars, cliVars, cacheVars, pc>>

-----------------------------------------------------------------------------
(* Characters and the str methods the source uses.                         *)

\* The characters Python's str.strip() and the regex class \s take for
\* whitespace (the ASCII ones).
Whitespace == {" ", "\t", "\n", "\r", "\f"}

UpperLetters ==
    <<"A", "B", "C", "D", "E", "F", "G", "H", "I", "J", "K", "L", "M",
      "N", "O", "P", "Q", "R", "S", "T", "U", "V", "W", "X", "Y", "Z">>

LowerLetters ==
    <<"a", "b", "c", "d", "e", "f", "g", "h", "i", "j", "k", "l", "m",
      "n", "o", "p", "q", "r", "s", "t", "u", "v", "w", "x", "y", "z">>

DigitChars == <<"0", "1", "2", "3", "4", "5", "6", "7", "8", "9">>

UpperSet == {UpperLetters[k] : k \in DOMAIN UpperLetters}
LowerSet == {LowerLetters[k] : k \in DOMAIN LowerLetters}
DigitSet == {DigitChars[k] : k \in DOMAIN DigitChars}

\* [A-Z], \d and \s at position p of s (false past the end).
IsUpperAt(s, p) == p \in DOMAIN s /\ s[p] \in UpperSet
IsDigitAt(s, p) == p \in DOMAIN s /\ s[p] \in DigitSet
IsSpaceAt(s, p) == p \in DOMAIN s /\ s[p] \in Whitespace

UpperOf == [c \in LowerSet |->
              UpperLetters[CHOOSE k \in DOMAIN LowerLetters : LowerLetters[k] = c]]
LowerOf == [c \in UpperSet |->
              LowerLetters[CHOOSE k \in DOMAIN UpperLetters : UpperLetters[k] = c]]

\* str.upper() and str.lower(), of one character and of a string
upper_char(c) == IF c \in LowerSet THEN UpperOf[c] ELSE c
lower_char(c) == IF c \in UpperSet THEN LowerOf[c] ELSE c
upper(s) == [k \in DOMAIN s |-> upper_char(s[k])]
lower(s) == [k \in DOMAIN s |-> lower_char(s[k])]

\* str.strip(): s without its leading and trailing whitespace
strip(s) ==
    LET keep == {k \in DOMAIN s : s[k] \notin Whitespace}
    IN  IF keep = {} THEN <<>>
        ELSE LET first == CHOOSE k \in keep : \A m \in keep : k <= m
                 last  == CHOOSE k \in keep : \A m \in keep : m <= k
             IN  SubSeq(s, first, last)

\* t occurs in s starting at position p
StartsWithAt(s, p, t) ==
    /\ p >= 1
    /\ p + Len(t) - 1 <= Len(s)
    /\ \A k \in DOMAIN t : s[p + k - 1] = t[k]

\* Python's `t in s` for two strings
Contains(s, t) == \E p \in 1..(Len(s) - Len(t) + 1) : StartsWithAt(s, p, t)

\* The position after the run of whitespace that starts at p (regex \s*,
\* taken greedily)
RECURSIVE SkipSpaces(_, _)
SkipSpaces(s, p) == IF IsSpaceAt(s, p) THEN SkipSpaces(s, p + 1) ELSE p

\* str.split('\n'): the pieces between the newlines, at least one piece
RECURSIVE SplitLines(_)
SplitLines(s) ==
    LET nl == {k \in DOMAIN s : s[k] = "\n"}
    IN  IF nl = {} THEN <<s>>
        ELSE LET k == CHOOSE n \in nl : \A m \in nl : n <= m
             IN  <<SubSeq(s, 1, k - 1)>> \o SplitLines(SubSeq(s, k + 1, Len(s)))

-----------------------------------------------------------------------------
(* parse_courses                                                           *)

\* The substrings that make a line a page header (line 31)
PageHeaderMarks ==
    { <<"P", "a", "g", "e">>,
      <<"D", "e", "p", "t", ".", " ", "o", "f">>,
      <<"L", "a", "s", "t", " ", "U", "p", "d", "a", "t", "e", "d">> }

\* Line 31: an empty line or a page header is skipped
IsSkippedLine(line) ==
    line = <<>> \/ \E h \in PageHeaderMarks : Contains(line, h)

\* The alternatives (EE|CpE|EE2|CpE1|EE3) of the regex of line 35
MajorAlternatives ==
    { <<"E", "E">>, <<"C", "p", "E">>, <<"E", "E", "2">>,
      <<"C", "p", "E", "1">>, <<"E", "E", "3">> }

\* The positions at which one of the alternatives, matched at p, can end
MajorEnds(s, p) ==
    {p + Len(m) : m \in {a \in MajorAlternatives : StartsWithAt(s, p, a)}}

\* The rest of the regex of line 35 from position p: (,\s*(..))*\s*$
RECURSIVE MajorTail(_, _)
MajorTail(s, p) ==
    \/ SkipSpaces(s, p) = Len(s) + 1
    \/ /\ p \in DOMAIN s
       /\ s[p] = ","
       /\ \E e \in MajorEnds(s, SkipSpaces(s, p + 1)) : MajorTail(s, e)

\* Line 35: the line holds major abbreviations and nothing else
IsMajorLine(line) == \E e \in MajorEnds(line, 1) : MajorTail(line, e)

\* Line 40: re.match(r'^([A-Z]{3}\s+\d{4}[A-Z]?)', line); the length of
\* group(1), or 0 when the line does not start with a course code
course_match(line) ==
    LET d == SkipSpaces(line, 4)
    IN  IF /\ \A k \in 1..3 : IsUpperAt(line, k)
           /\ d > 4
           /\ \A k \in d..(d + 3) : IsDigitAt(line, k)
        THEN IF IsUpperAt(line, d + 4) THEN d + 4 ELSE d + 3
        ELSE 0

\* The empty dict {} of line 24
EmptyCourse == <<>>

\* Python's truth value of a dict and of a str
Truthy(v) == DOMAIN v # {}

\* Lines 43-45 without line 44: the record keeps the majors it started with
SavePrevious_KeepsMajors(cs, cur, majors) ==
    IF Truthy(cur) /\ Truthy(majors) THEN Append(cs, cur) ELSE cs

\* Lines 43-45 with the test `if current_course:` alone
SavePrevious_NoMajorsTest(cs, cur, majors) ==
    IF Truthy(cur) THEN Append(cs, [cur EXCEPT !.majors = majors]) ELSE cs

\* Lines 43-45: save the previous course if there is one
SavePrevious(cs, cur, majors) ==
    IF Truthy(cur) /\ Truthy(majors)
    THEN Append(cs, [cur EXCEPT !.majors = majors])
    ELSE cs

\* Lines 48-52: the record a course-code line starts
NewCourse(line, n, majors) ==
    [course_code |-> SubSeq(line, 1, n),
     full_description |-> line,
     majors |-> majors]

\* The KeyError `current_course['full_description'] += ...` raises when
\* current_course is the empty dict: a value no list of courses is equal to
KeyError == << [exception |-> "KeyError"] >>

\* Lines 28-55 with `else:` in place of `elif current_course and line:`
\* (line 53): a line that is neither a marker nor a course-code line, met
\* before any course-code line, raises KeyError at line 55, which ends the
\* loop
LoopBody_NoCourseTest(st, raw) ==
    LET line == strip(raw)
        n    == course_match(line)
    IN  IF st.courses = KeyError THEN st
        ELSE IF IsSkippedLine(line) THEN st
        ELSE IF IsMajorLine(line) THEN [st EXCEPT !.current_majors = line]
        ELSE IF n > 0
             THEN [st EXCEPT
                     !.courses = SavePrevious(st.courses, st.current_course,
                                              st.current_majors),
                     !.current_course = NewCourse(line, n, st.current_majors)]
        ELSE IF Truthy(st.current_course)
             THEN [st EXCEPT !.current_course.full_description =
                                 @ \o <<" ">> \o line]
        ELSE [st EXCEPT !.courses = KeyError, !.current_course = EmptyCourse]

\* Lines 28-55 with the test of line 31 for page headers made after the
\* other rules: only a line that is no marker, no course-code line and no
\* continuation is skipped
LoopBody_FilterLast(st, raw) ==
    LET line == strip(raw)
        n    == course_match(line)
    IN  IF line = <<>> THEN st
        ELSE IF IsMajorLine(line) THEN [st EXCEPT !.current_majors = line]
        ELSE IF n > 0
             THEN [st EXCEPT
                     !.courses = SavePrevious(st.courses, st.current_course,
                                              st.current_majors),
                     !.current_course = NewCourse(line, n, st.current_majors)]
        ELSE IF Truthy(st.current_course)
             THEN [st EXCEPT !.current_course.full_description =
                                 @ \o <<" ">> \o line]
        ELSE st

\* Lines 28-55: the body of the loop, applied to one raw line in the state
\* st = [courses, current_course, current_majors]
LoopBody(st, raw) ==
    LET line == strip(raw)
        n    == course_match(line)
    IN  IF IsSkippedLine(line) THEN st
        ELSE IF IsMajorLine(line) THEN [st EXCEPT !.current_majors = line]
        ELSE IF n > 0
             THEN [st EXCEPT
                     !.courses = SavePrevious(st.courses, st.current_course,
                                              st.current_majors),
                     !.current_course = NewCourse(line, n, st.current_majors)]
        ELSE IF Truthy(st.current_course)
             THEN [st EXCEPT !.current_course.full_description =
                                 @ \o <<" ">> \o line]
        ELSE st

\* Lines 19-25: the state the loop starts in
LoopStart == [courses |-> <<>>, current_course |-> EmptyCourse,
              current_majors |-> <<>>]

\* Lines 57-62 with the test `if current_course:` alone
AddLast_NoMajorsTest(st) ==
    IF Truthy(st.current_course)
    THEN Append(st.courses, [st.current_course EXCEPT !.majors = st.current_majors])
    ELSE st.courses

\* Lines 57-62: add the last course and return the list
AddLast(st) == SavePrevious(st.courses, st.current_course, st.current_majors)

RECURSIVE RunLoop(_, _, _)
RunLoop(st, ls, k) ==
    IF k > Len(ls) THEN st ELSE RunLoop(LoopBody(st, ls[k]), ls, k + 1)

\* parse_courses(text), lines 17-62
parse_courses(t) == AddLast(RunLoop(LoopStart, SplitLines(t), 1))

-----------------------------------------------------------------------------
(* parse_prerequisites                                                     *)

\* The three headers with "Prerequisites:" tried first and "PR:" last
pr_patterns_Reversed ==
    << <<"P", "r", "e", "r", "e", "q", "u", "i", "s", "i", "t", "e", "s",
         ":">>,
       <<"P", "r", "e", "r", "e", "q", "u", "i", "s", "i", "t", "e", "(", "s",
         ")", ":">>,
       <<"P", "R", ":">> >>

\* Lines 196-200: the headers of the three patterns, in the order tried
\* ("PR:", "Prerequisite(s):", "Prerequisites:"); each pattern is its header
\* followed by \s*([^.]+)
pr_patterns ==
    << <<"P", "R", ":">>,
       <<"P", "r", "e", "r", "e", "q", "u", "i", "s", "i", "t", "e", "(", "s",
         ")", ":">>,
       <<"P", "r", "e", "r", "e", "q", "u", "i", "s", "i", "t", "e", "s",
         ":">> >>

\* The header occurs in s at position p, letter case ignored (re.IGNORECASE)
HeaderAt(s, p, header) ==
    /\ p + Len(header) - 1 <= Len(s)
    /\ \A k \in DOMAIN header : lower_char(s[p + k - 1]) = lower_char(header[k])

\* The position after the run of characters other than "." that starts at p
\* (regex [^.]+, taken greedily)
RECURSIVE SkipToPeriod(_, _)
SkipToPeriod(s, p) ==
    IF p \in DOMAIN s /\ s[p] # "." THEN SkipToPeriod(s, p + 1) ELSE p

\* \s*(.+) in place of \s*([^.]+): the clause runs to the end of the text
GroupAt_ToEnd(s, q) ==
    LET w == SkipSpaces(s, q)
    IN  IF w <= Len(s) THEN <<w, Len(s)>>
        ELSE IF w > q THEN <<w - 1, w - 1>>
        ELSE <<>>

\* \s*([^.]+) matched at position q: the span <<from, to>> of group(1), or
\* <<>> when it does not match. \s* takes all the whitespace at q; when no
\* character other than "." follows, it gives the last blank back to
\* [^.]+, and with no blank to give back there is no match.
GroupAt(s, q) ==
    LET w == SkipSpaces(s, q)
    IN  IF SkipToPeriod(s, w) > w THEN <<w, SkipToPeriod(s, w) - 1>>
        ELSE IF w > q THEN <<w - 1, w - 1>>
        ELSE <<>>

\* Line 203 with group(1) of line 205: re.search(pattern, description,
\* re.IGNORECASE) finds the leftmost position where the pattern matches;
\* <<from, to>> of its group(1), or <<>> when the pattern matches nowhere
search_group(header, s) ==
    LET hits == {p \in DOMAIN s :
                    HeaderAt(s, p, header) /\ GroupAt(s, p + Len(header)) # <<>>}
    IN  IF hits = {} THEN <<>>
        ELSE LET p == CHOOSE h \in hits : \A m \in hits : h <= m
             IN  GroupAt(s, p + Len(header))

\* [A-Z]{3}\s*\d{4}[A-Z]? matched at position p of s: the position of the
\* last character of the match, 0 when it does not match
code_at(s, p) ==
    LET d == SkipSpaces(s, p + 3)
    IN  IF /\ \A k \in p..(p + 2) : IsUpperAt(s, k)
           /\ \A k \in d..(d + 3) : IsDigitAt(s, k)
        THEN IF IsUpperAt(s, d + 4) THEN d + 4 ELSE d + 3
        ELSE 0

\* Line 207: re.findall(r'[A-Z]{3}\s*\d{4}[A-Z]?', s) scanning from p: the
\* matches from left to right, none overlapping another
RECURSIVE findall_codes(_, _)
findall_codes(s, p) ==
    IF p > Len(s) THEN <<>>
    ELSE IF code_at(s, p) > 0
         THEN <<SubSeq(s, p, code_at(s, p))>> \o findall_codes(s, code_at(s, p) + 1)
         ELSE findall_codes(s, p + 1)

\* Lines 205-208: the course codes of the clause a pattern captured
CodesOfGroup(s, g) == findall_codes(strip(SubSeq(s, g[1], g[2])), 1)

\* Lines 202-209: the loop over the patterns from pattern k on; the first
\* pattern that matches decides the result
RECURSIVE FirstMatch(_, _)
FirstMatch(s, k) ==
    IF k > Len(pr_patterns) THEN <<>>
    ELSE IF search_group(pr_patterns[k], s) # <<>>
         THEN CodesOfGroup(s, search_group(pr_patterns[k], s))
         ELSE FirstMatch(s, k + 1)

\* parse_prerequisites(description), lines 191-211
parse_prerequisites(s) == FirstMatch(s, 1)

-----------------------------------------------------------------------------
(* search_courses_by_major, is_graduate_course, filter_by_academic_level   *)

\* Python's None
None == <<"None">>

\* Lines 64-72: the courses whose majors string has `major` inside it
search_courses_by_major(cs, major) ==
    LET Matching(course) == Contains(course.majors, major)
    IN  SelectSeq(cs, Matching)

\* Line 241: re.search(r'(\d{4})', s): the position of the leftmost run of
\* four digits, 0 when there is none
number_match(s) ==
    LET runs == {p \in DOMAIN s : \A k \in p..(p + 3) : IsDigitAt(s, k)}
    IN  IF runs = {} THEN 0 ELSE CHOOSE p \in runs : \A m \in runs : p <= m

\* Line 243: int() of a string of digits
RECURSIVE int(_)
int(s) ==
    IF s = <<>> THEN 0
    ELSE 10 * int(SubSeq(s, 1, Len(s) - 1))
         + (CHOOSE v \in 0..9 : DigitChars[v + 1] = s[Len(s)])

\* Lines 249-256
grad_indicators ==
    { <<"g", "r", "a", "d", "u", "a", "t", "e", " ", "s", "t", "a", "n",
        "d", "i", "n", "g">>,
      <<"g", "r", "a", "d", " ", "s", "t", "a", "n", "d", "i", "n", "g">>,
      <<"a", "d", "m", "i", "s", "s", "i", "o", "n", " ", "t", "o", " ",
        "m", "a", "t", " ", "d", "e", "g", "r", "e", "e">>,
      <<"g", "r", "a", "d", "u", "a", "t", "e", " ", "s", "t", "u", "d",
        "e", "n", "t">>,
      <<"p", "r", ":", " ", "g", "r", "a", "d", "u", "a", "t", "e">>,
      <<"p", "r", "e", "r", "e", "q", "u", "i", "s", "i", "t", "e", ":",
        " ", "g", "r", "a", "d", "u", "a", "t", "e">> }

\* Lines 235-263 with the test `course_number > 5000`
is_graduate_course_Above5000(course) ==
    LET p == number_match(course.course_code)
    IN  \/ p > 0 /\ int(SubSeq(course.course_code, p, p + 3)) > 5000
        \/ \E indicator \in grad_indicators :
              Contains(lower(course.full_description), indicator)

\* Lines 235-263
is_graduate_course(course) ==
    LET p == number_match(course.course_code)
    IN  \/ p > 0 /\ int(SubSeq(course.course_code, p, p + 3)) >= 5000
        \/ \E indicator \in grad_indicators :
              Contains(lower(course.full_description), indicator)

\* "graduate" and "undergraduate", the levels of lines 267 and 269
LevelGraduate == <<"g", "r", "a", "d", "u", "a", "t", "e">>
LevelUndergraduate ==
    <<"u", "n", "d", "e", "r", "g", "r", "a", "d", "u", "a", "t", "e">>

\* The exception `academic_level.lower()` raises at line 267 when
\* academic_level is None: a value no list of courses is equal to
AttributeError == << [exception |-> "AttributeError"] >>

\* The value is an exception that was raised, not a list of courses
IsRaised(v) == Len(v) = 1 /\ "exception" \in DOMAIN v[1]

\* Lines 265-272 with `graduate` keeping the graduate courses only
filter_by_academic_level_GraduateOnly(cs, academic_level) ==
    LET Graduate(course)    == is_graduate_course(course)
        NotGraduate(course) == ~is_graduate_course(course)
    IN  IF academic_level = None THEN AttributeError
        ELSE IF lower(academic_level) = LevelGraduate
             THEN SelectSeq(cs, Graduate)
        ELSE IF lower(academic_level) = LevelUndergraduate
             THEN SelectSeq(cs, NotGraduate)
        ELSE cs

\* Lines 265-272 with `undergraduate` keeping the graduate courses that
\* are graduate by a phrase of their description alone
filter_by_academic_level_UndergraduateByNumber(cs, academic_level) ==
    LET p(course) == number_match(course.course_code)
        Below5000(course) ==
            ~(p(course) > 0
              /\ int(SubSeq(course.course_code, p(course), p(course) + 3)) >= 5000)
    IN  IF academic_level = None THEN AttributeError
        ELSE IF lower(academic_level) = LevelGraduate THEN cs
        ELSE IF lower(academic_level) = LevelUndergraduate
             THEN SelectSeq(cs, Below5000)
        ELSE cs

\* Lines 265-272. None has no method lower: with academic_level None the
\* call of line 267 raises AttributeError
filter_by_academic_level(cs, academic_level) ==
    LET NotGraduate(course) == ~is_graduate_course(course)
    IN  IF academic_level = None THEN AttributeError
        ELSE IF lower(academic_level) = LevelGraduate THEN cs
        ELSE IF lower(academic_level) = LevelUndergraduate
             THEN SelectSeq(cs, NotGraduate)
        ELSE cs

-----------------------------------------------------------------------------
(* check_prerequisites_met and get_eligible_courses                        *)

\* re.sub(r'\s+', ' ', s) from position p on: every run of whitespace
\* becomes one space
RECURSIVE collapse_spaces(_, _)
collapse_spaces(s, p) ==
    IF p > Len(s) THEN <<>>
    ELSE IF IsSpaceAt(s, p)
         THEN <<" ">> \o collapse_spaces(s, SkipSpaces(s, p))
         ELSE <<s[p]>> \o collapse_spaces(s, p + 1)

\* Lines 221 and 225: the normalized form of a course code
normalized(code) == collapse_spaces(strip(code), 1)

\* Lines 222-228 with the loop of line 224 left after its first entry
found_FirstOnly(prereq, completed_courses) ==
    /\ completed_courses # <<>>
    /\ upper(normalized(prereq)) = upper(normalized(completed_courses[1]))

\* Lines 222-228 without the .upper() of line 226
found_CaseSensitive(prereq, completed_courses) ==
    \E k \in DOMAIN completed_courses :
        normalized(prereq) = normalized(completed_courses[k])

\* Lines 222-228: some completed course equals the prerequisite, both
\* normalized and in upper case
found(prereq, completed_courses) ==
    \E k \in DOMAIN completed_courses :
        upper(normalized(prereq)) = upper(normalized(completed_courses[k]))

\* Lines 213-233 with missing_prereqs.append(normalized_prereq) at line 231
check_prerequisites_met_AppendsNormalized(course_prereqs, completed_courses) ==
    LET NotFound(prereq) == ~found(prereq, completed_courses)
        missing_prereqs  == SelectSeq(course_prereqs, NotFound)
    IN  IF course_prereqs = <<>> THEN <<TRUE, <<>>>>
        ELSE <<Len(missing_prereqs) = 0,
               [k \in DOMAIN missing_prereqs |-> normalized(missing_prereqs[k])]>>

\* Lines 213-233: <<prereqs_met, missing_prereqs>>
check_prerequisites_met(course_prereqs, completed_courses) ==
    LET NotFound(prereq) == ~found(prereq, completed_courses)
        missing_prereqs  == SelectSeq(course_prereqs, NotFound)
    IN  IF course_prereqs = <<>> THEN <<TRUE, <<>>>>
        ELSE <<Len(missing_prereqs) = 0, missing_prereqs>>

\* Lines 286-296: the report entry of one course
course_info(course, completed_courses) ==
    LET course_prereqs == parse_prerequisites(course.full_description)
        checked        == check_prerequisites_met(course_prereqs, completed_courses)
    IN  [course_code |-> course.course_code,
         full_description |-> course.full_description,
         majors |-> course.majors,
         prerequisites |-> course_prereqs,
         prereqs_met |-> checked[1],
         missing_prereqs |-> checked[2],
         is_graduate |-> is_graduate_course(course)]

\* Lines 281-298: the loop over the level-filtered courses from index k on
RECURSIVE eligible_from(_, _, _, _)
eligible_from(cs, k, completed_courses, major) ==
    IF k > Len(cs) THEN <<>>
    ELSE IF major # None /\ Truthy(major) /\ ~Contains(cs[k].majors, major)
         THEN eligible_from(cs, k + 1, completed_courses, major)
         ELSE <<course_info(cs[k], completed_courses)>>
              \o eligible_from(cs, k + 1, completed_courses, major)

\* Lines 274-300 with the courses already completed left out of the report
get_eligible_courses_SkipsCompleted(cs, completed_courses, major, academic_level) ==
    LET NotCompleted(course) == ~found(course.course_code, completed_courses)
        level_filtered_courses == filter_by_academic_level(cs, academic_level)
    IN  IF IsRaised(level_filtered_courses) THEN level_filtered_courses
        ELSE eligible_from(SelectSeq(level_filtered_courses, NotCompleted),
                           1, completed_courses, major)

\* Lines 291-295 with `course_info = course`: the fields are written to the
\* record of the list itself
record_after_report_NoCopy(course, completed_courses) ==
    course_info(course, completed_courses)

\* Lines 291-295, what the loop body leaves in the record of the list it
\* was given: course_info is a copy (line 291), the four fields are written
\* to the copy and the record stays as it was
record_after_report(course, completed_courses) == course

\* The list all_courses after get_eligible_courses has run on cs, a list of
\* records of all_courses: the records the loop of lines 281-298 went over
\* are as the loop body left them
courses_after_report(all_courses, cs, completed_courses, major, academic_level) ==
    LET level_filtered_courses == filter_by_academic_level(cs, academic_level)
        Visited(course) ==
            /\ \E k \in DOMAIN level_filtered_courses :
                  level_filtered_courses[k] = course
            /\ ~(major # None /\ Truthy(major)
                 /\ ~Contains(course.majors, major))
    IN  IF IsRaised(level_filtered_courses) THEN all_courses
        ELSE [k \in DOMAIN all_courses |->
                 IF Visited(all_courses[k])
                 THEN record_after_report(all_courses[k], completed_courses)
                 ELSE all_courses[k]]

\* get_eligible_courses(courses, completed_courses, major, academic_level),
\* lines 274-300; an exception raised at line 279 leaves the function
get_eligible_courses(cs, completed_courses, major, academic_level) ==
    LET level_filtered_courses == filter_by_academic_level(cs, academic_level)
    IN  IF IsRaised(level_filtered_courses) THEN level_filtered_courses
        ELSE eligible_from(level_filtered_courses, 1, completed_courses, major)

-----------------------------------------------------------------------------
(* The texts the segmenter is run on.                                      *)

\* The longest text, in lines
MaxLines == 3

\* "EE": a major marker
LineEE == <<"E", "E">>
\* "EE2,CpE": a major marker with no space after the comma
LineEE2CpE == <<"E", "E", "2", ",", "C", "p", "E">>
\* "EEL 3801C": a course-code line
LineEEL3801C == <<"E", "E", "L", " ", "3", "8", "0", "1", "C">>
\* "EEE  5513 DSP": a course-code line, two spaces inside the code
LineEEE5513 ==
    <<"E", "E", "E", " ", " ", "5", "5", "1", "3", " ", "D", "S", "P">>
\* " PR: EEL 3801C.": a continuation line, to be stripped
LinePR ==
    <<" ", "P", "R", ":", " ", "E", "E", "L", " ", "3", "8", "0", "1", "C",
      ".">>
\* "EEL 4750 Page 2": a page header that starts with a course code
LinePage ==
    <<"E", "E", "L", " ", "4", "7", "5", "0", " ", "P", "a", "g", "e", " ",
      "2">>
\* "Last Updated 2025": a stamp that would continue a record
LineLastUpdated ==
    <<"L", "a", "s", "t", " ", "U", "p", "d", "a", "t", "e", "d", " ", "2",
      "0", "2", "5">>
\* " ": a blank line
LineBlank == <<" ">>

ParseLines ==
    {LineEE, LineEE2CpE, LineEEL3801C, LineEEE5513, LinePR, LinePage,
     LineLastUpdated, LineBlank}

\* '\n'.join(ls)
RECURSIVE JoinLines(_)
JoinLines(ls) ==
    IF Len(ls) = 0 THEN <<>>
    ELSE IF Len(ls) = 1 THEN ls[1]
    ELSE ls[1] \o <<"\n">> \o JoinLines(Tail(ls))

SeqsUpTo(S, n) == UNION {[1..k -> S] : k \in 0..n}

ParseTexts == {JoinLines(ls) : ls \in SeqsUpTo(ParseLines, MaxLines)}

\* The graph of lines 32-35 and 126-129, before any node is added
EmptyGraph == [nodes |-> <<>>, edges |-> <<>>]

\* The command line with no option given
NoArgs ==
    [undergrad |-> FALSE, graduate |-> FALSE, major |-> None, stats |-> FALSE]

\* display_stats has printed no progress
NoProgress ==
    [printed |-> FALSE, completed |-> 0, eligible_count |-> 0,
     ineligible_count |-> 0]

\* The statistics of no course at all
NoStats == [total_courses |-> 0, undergraduate_courses |-> 0,
            graduate_courses |-> 0, major_counts |-> <<>>]

\* No request has been served
NoRequest ==
    /\ op = "none"
    /\ req_major = None
    /\ req_completed = <<>>
    /\ req_level = <<>>
    /\ records = <<>>
    /\ matching_courses = <<>>
    /\ eligible = <<>>
    /\ graph = EmptyGraph
    /\ course_list = <<>>
    /\ stats = NoStats

\* The CLI has not run
NoCli ==
    /\ args = NoArgs
    /\ filtered_courses = <<>>
    /\ course_history = <<>>
    /\ progress = NoProgress

\* The None of course_api.py line 16, where a list of courses is expected:
\* a value no list of courses is equal to
NoneCourses == << [none |-> TRUE] >>

\* No handler is inside load_course_data and the cache is empty
NoHandlers ==
    /\ course_data = NoneCourses
    /\ handler = <<>>
    /\ parse_calls = 0

-----------------------------------------------------------------------------
(* The segmenter, one line at a time.                                      *)

\* The state of the loop, as LoopBody takes it
LoopState == [courses |-> courses, current_course |-> current_course,
              current_majors |-> current_majors]

InitParse ==
    /\ text \in ParseTexts
    /\ lines = <<>>
    /\ i = 0
    /\ current_course = EmptyCourse
    /\ current_majors = <<>>
    /\ courses = <<>>
    /\ description = <<>>
    /\ prereqs = <<>>
    /\ NoRequest
    /\ NoCli
    /\ NoHandlers
    /\ pc = "start"

\* Lines 19-25
Start ==
    /\ pc = "start"
    /\ lines' = SplitLines(text)
    /\ i' = 1
    /\ courses' = LoopStart.courses
    /\ current_course' = LoopStart.current_course
    /\ current_majors' = LoopStart.current_majors
    /\ pc' = "loop"
    /\ UNCHANGED <<text, prereqVars, requestVars, cliVars, cacheVars>>

\* One pass of the loop of lines 27-55 over lines[i]
Iterate ==
    /\ courses' = LoopBody(LoopState, lines[i]).courses
    /\ current_course' = LoopBody(LoopState, lines[i]).current_course
    /\ current_majors' = LoopBody(LoopState, lines[i]).current_majors
    /\ i' = i + 1
    /\ UNCHANGED <<text, lines, pc, prereqVars, requestVars, cliVars,
                   cacheVars>>

AtLine == pc = "loop" /\ i <= Len(lines)

\* Lines 31-32
SkipLine ==
    /\ AtLine
    /\ IsSkippedLine(strip(lines[i]))
    /\ Iterate

\* Lines 35-37
MajorLine ==
    /\ AtLine
    /\ ~IsSkippedLine(strip(lines[i]))
    /\ IsMajorLine(strip(lines[i]))
    /\ Iterate

\* Lines 40-52
CourseLine ==
    /\ AtLine
    /\ ~IsSkippedLine(strip(lines[i]))
    /\ ~IsMajorLine(strip(lines[i]))
    /\ course_match(strip(lines[i])) > 0
    /\ Iterate

\* Lines 53-55
OtherLine ==
    /\ AtLine
    /\ ~IsSkippedLine(strip(lines[i]))
    /\ ~IsMajorLine(strip(lines[i]))
    /\ course_match(strip(lines[i])) = 0
    /\ Iterate

\* Lines 57-62
Finish ==
    /\ pc = "loop"
    /\ i > Len(lines)
    /\ courses' = AddLast(LoopState)
    /\ pc' = "parsed"
    /\ UNCHANGED <<text, lines, i, current_course, current_majors, prereqVars,
                   requestVars, cliVars, cacheVars>>

NextParse == Start \/ SkipLine \/ MajorLine \/ CourseLine \/ OtherLine \/ Finish

SpecParse == InitParse /\ [][NextParse]_vars

-----------------------------------------------------------------------------
(* What the segmenter is expected to do, read off the text.                *)

\* What line k of the text is: a skipped line, a major marker, a
\* course-code line or any other line
Kind(k) ==
    LET line == strip(lines[k])
    IN  IF IsSkippedLine(line) THEN "skip"
        ELSE IF IsMajorLine(line) THEN "major"
        ELSE IF course_match(line) > 0 THEN "course"
        ELSE "other"

\* The last line of the given kind before line k, 0 if there is none
LastBefore(kind, k) ==
    LET S == {m \in 1..(k - 1) : m \in DOMAIN lines /\ Kind(m) = kind}
    IN  IF S = {} THEN 0 ELSE CHOOSE m \in S : \A n \in S : n <= m

\* The most recent major-marker line before line k, "" if there is none
MajorsBefore(k) ==
    IF LastBefore("major", k) = 0 THEN <<>>
    ELSE strip(lines[LastBefore("major", k)])

\* This step appends a record to the output
Commits == Len(courses') > Len(courses)

\* This step closes the block in progress: the loop is at a course-code line
\* or past the last line
Closes ==
    /\ pc = "loop"
    /\ pc' = "parsed" \/ (i \in DOMAIN lines /\ Kind(i) = "course")

\* The course-code line of the block in progress when the loop is at line i
OwnLine == LastBefore("course", i)

\* C1: every record of the output, at every point of the run, has a
\* non-empty majors value.
C1_MajorsNonEmpty == \A k \in DOMAIN courses : courses[k].majors # <<>>

\* A run has ended that committed a record and dropped a block
C1_Witness ==
    /\ pc = "parsed"
    /\ courses # <<>>
    /\ Cardinality({k \in DOMAIN lines : Kind(k) = "course"}) > Len(courses)

\* C2 as claimed: a committed record's majors value is the most recent
\* major-marker line before the record's own course-code line.
C2_MajorsOfOwnLine ==
    [][Commits => courses'[Len(courses')].majors = MajorsBefore(OwnLine)]_vars

\* C2, amended: a committed record's majors value is the most recent
\* major-marker line before the line that closes the record (the next
\* course-code line, or the end of the text), so a marker line between the
\* record's course-code line and that point replaces the majors the record
\* started with.
C2_MajorsAtClose ==
    [][Commits => /\ courses' = Append(courses, courses'[Len(courses')])
                  /\ courses'[Len(courses')].majors = MajorsBefore(i)
                  /\ courses'[Len(courses')].course_code = current_course.course_code]_vars

\* A run has ended whose last record was started under one marker and
\* closed under another
C2_Witness ==
    /\ pc = "parsed"
    /\ courses # <<>>
    /\ LET own == LastBefore("course", Len(lines) + 1)
       IN  /\ own > 0
           /\ MajorsBefore(own) # <<>>
           /\ MajorsBefore(own) # MajorsBefore(Len(lines) + 1)
           /\ courses[Len(courses)].majors = MajorsBefore(Len(lines) + 1)

\* C3 as claimed: a block whose course-code line comes before the first
\* major-marker line is never committed.
C3_EarlyBlockDiscarded ==
    [][Commits => MajorsBefore(OwnLine) # <<>>]_vars

\* C3, amended: a block is discarded exactly when no major-marker line
\* comes before the line that closes it (the next course-code line, or the
\* end of the text); a block whose course-code line comes before the first
\* marker is committed when a marker comes before its closing line.
C3_BlockDiscardedIffNoMarkerAtClose ==
    [][(Closes /\ OwnLine > 0) =>
          IF MajorsBefore(i) = <<>>
          THEN courses' = courses
          ELSE /\ Len(courses') = Len(courses) + 1
               /\ courses'[Len(courses')].full_description =
                      current_course.full_description]_vars

\* A run has ended that dropped a block closed before the first marker and
\* committed a block started before it
C3_Witness ==
    /\ pc = "parsed"
    /\ Len(courses) = 1
    /\ \E j, k \in DOMAIN lines :
          /\ j < k
          /\ Kind(j) = "course" /\ Kind(k) = "course"
          /\ MajorsBefore(k) = <<>>
          /\ MajorsBefore(Len(lines) + 1) # <<>>

-----------------------------------------------------------------------------
(* The prerequisite extractor on descriptions put together from pieces.    *)

\* The longest description, in pieces
MaxPieces == 5

\* "PR:"
PiecePR == <<"P", "R", ":">>
\* "prerequisite(s):", in lower case
PiecePrerequisiteS ==
    <<"p", "r", "e", "r", "e", "q", "u", "i", "s", "i", "t", "e", "(", "s",
      ")", ":">>
\* "Prerequisites:"
PiecePrerequisites ==
    <<"P", "r", "e", "r", "e", "q", "u", "i", "s", "i", "t", "e", "s", ":">>
\* " EEL 4750"
PieceEEL4750 == <<" ", "E", "E", "L", " ", "4", "7", "5", "0">>
\* "EEE3307C": a course code written without a space
PieceEEE3307C == <<"E", "E", "E", "3", "3", "0", "7", "C">>
\* " .": the end of a sentence, after a blank
PiecePeriod == <<" ", ".">>

Pieces ==
    {PiecePR, PiecePrerequisiteS, PiecePrerequisites, PieceEEL4750,
     PieceEEE3307C, PiecePeriod}

\* ''.join(ps)
RECURSIVE Concat(_)
Concat(ps) == IF Len(ps) = 0 THEN <<>> ELSE ps[1] \o Concat(Tail(ps))

Descriptions == {Concat(ps) : ps \in SeqsUpTo(Pieces, MaxPieces)}

InitPrereq ==
    /\ description \in Descriptions
    /\ prereqs = <<>>
    /\ NoRequest
    /\ NoCli
    /\ NoHandlers
    /\ pc = "extract"
    /\ text = <<>>
    /\ lines = <<>>
    /\ i = 0
    /\ current_course = EmptyCourse
    /\ current_majors = <<>>
    /\ courses = <<>>

\* A call of parse_prerequisites(description)
ParsePrerequisites ==
    /\ pc = "extract"
    /\ prereqs' = parse_prerequisites(description)
    /\ pc' = "extracted"
    /\ UNCHANGED <<description, parseVars, requestVars, cliVars, cacheVars>>

NextPrereq == ParsePrerequisites

SpecPrereq == InitPrereq /\ [][NextPrereq]_vars

\* The headers the claims name, highest priority first: "PR:",
\* "Prerequisite(s):", "Prerequisites:"
HeadersByPriority ==
    << <<"P", "R", ":">>,
       <<"P", "r", "e", "r", "e", "q", "u", "i", "s", "i", "t", "e", "(", "s",
         ")", ":">>,
       <<"P", "r", "e", "r", "e", "q", "u", "i", "s", "i", "t", "e", "s",
         ":">> >>

\* The positions of the description at which header k stands, letter case
\* ignored
Occurrences(k) ==
    {p \in DOMAIN description : HeaderAt(description, p, HeadersByPriority[k])}

\* The positions at which header k stands and is followed by at least one
\* character other than a period: the places where pattern k matches
Matches(k) ==
    {p \in Occurrences(k) :
        /\ p + Len(HeadersByPriority[k]) <= Len(description)
        /\ description[p + Len(HeadersByPriority[k])] # "."}

Leftmost(S) == CHOOSE p \in S : \A m \in S : p <= m

\* The text from the end of the header that stands at p up to the first
\* period after it (or the end of the description)
ClauseAfter(k, p) ==
    LET from    == p + Len(HeadersByPriority[k])
        periods == {m \in from..Len(description) : description[m] = "."}
    IN  IF periods = {} THEN SubSeq(description, from, Len(description))
        ELSE SubSeq(description, from, Leftmost(periods) - 1)

\* The text after the first period that follows position p
AfterPeriod(p) ==
    LET periods == {m \in p..Len(description) : description[m] = "."}
    IN  IF periods = {} THEN <<>>
        ELSE SubSeq(description, Leftmost(periods) + 1, Len(description))

\* C5: the codes returned are exactly the codes inside the clause of the
\* first match of one header, the clause ending at the first period after
\* that header; nothing after that period is returned. With no header
\* matched the result is empty.
C5_OnlyFirstClause ==
    pc = "extracted" =>
        IF \A k \in DOMAIN HeadersByPriority : Matches(k) = {}
        THEN prereqs = <<>>
        ELSE \E k \in DOMAIN HeadersByPriority :
                /\ Matches(k) # {}
                /\ prereqs = findall_codes(ClauseAfter(k, Leftmost(Matches(k))), 1)

\* A description was read in which the clause used holds a code and is
\* followed, after its period, by a header and by a code that is not
\* returned
C5_Witness ==
    /\ pc = "extracted"
    /\ Matches(1) # {}
    /\ prereqs = <<PieceEEE3307C>>
    /\ LET rest == AfterPeriod(Leftmost(Matches(1)))
       IN  /\ findall_codes(rest, 1) = <<SubSeq(PieceEEL4750, 2, 9)>>
           /\ \E k \in DOMAIN HeadersByPriority, p \in DOMAIN rest :
                  HeaderAt(rest, p, HeadersByPriority[k])

\* The header of highest priority that stands anywhere in the description
\* (0 if none does)
PresentHeader ==
    IF \A k \in DOMAIN HeadersByPriority : Occurrences(k) = {} THEN 0
    ELSE Leftmost({k \in DOMAIN HeadersByPriority : Occurrences(k) # {}})

\* The pattern of highest priority that matches (0 if none does)
MatchingHeader ==
    IF \A k \in DOMAIN HeadersByPriority : Matches(k) = {} THEN 0
    ELSE Leftmost({k \in DOMAIN HeadersByPriority : Matches(k) # {}})

\* C6 as claimed: the header of highest priority that is present anywhere in
\* the text decides the result: the codes of its first clause are returned
\* and no other header is used.
C6_PresentHeaderDecides ==
    pc = "extracted" =>
        LET k == PresentHeader
        IN  k # 0 =>
              prereqs = findall_codes(ClauseAfter(k, Leftmost(Occurrences(k))), 1)

\* C6, amended: the pattern of highest priority that matches decides the
\* result, a header counting as a match only where at least one character
\* other than a period follows it: the codes of the clause of its leftmost
\* match are returned, even if another header stands earlier in the text
\* and even if that clause holds no code.
C6_MatchingHeaderDecides ==
    pc = "extracted" =>
        LET k == MatchingHeader
        IN  IF k = 0 THEN prereqs = <<>>
            ELSE prereqs = findall_codes(ClauseAfter(k, Leftmost(Matches(k))), 1)

\* A description was read in which "PR:" matches with a clause holding no
\* code, after a header of lower priority whose clause holds a code
C6_Witness ==
    /\ pc = "extracted"
    /\ MatchingHeader = 1
    /\ prereqs = <<>>
    /\ \E k \in 2..3 :
          /\ Matches(k) # {}
          /\ Leftmost(Matches(k)) < Leftmost(Matches(1))
          /\ findall_codes(ClauseAfter(k, Leftmost(Matches(k))), 1) # <<>>

-----------------------------------------------------------------------------
(* Requests served from a loaded catalog.                                  *)

\* The largest catalog, in courses
MaxCourses == 2

\* The longest list of completed courses
MaxCompleted == 2

\* A catalog entry: the lines of a course block and the major marker that
\* follows it.
\* "EEL 3801C" under "EE"
EntryEEL3801C ==
    << <<"E", "E", "L", " ", "3", "8", "0", "1", "C">>,
       <<"E", "E">> >>
\* "EEL 4750 PR: EEL 3801C." under "EE2"
EntryEEL4750 ==
    << <<"E", "E", "L", " ", "4", "7", "5", "0", " ", "P", "R", ":", " ",
         "E", "E", "L", " ", "3", "8", "0", "1", "C", ".">>,
       <<"E", "E", "2">> >>
\* "EEL 5000", "PR: EEL 4750, EEL 4750C." under "EE, CpE"
EntryEEL5000 ==
    << <<"E", "E", "L", " ", "5", "0", "0", "0">>,
       <<"P", "R", ":", " ", "E", "E", "L", " ", "4", "7", "5", "0", ",",
         " ", "E", "E", "L", " ", "4", "7", "5", "0", "C", ".">>,
       <<"E", "E", ",", " ", "C", "p", "E">> >>
\* "EEE 4999 PR: Graduate Standing." under "CpE1"
EntryEEE4999 ==
    << <<"E", "E", "E", " ", "4", "9", "9", "9", " ", "P", "R", ":", " ",
         "G", "r", "a", "d", "u", "a", "t", "e", " ", "S", "t", "a", "n",
         "d", "i", "n", "g", ".">>,
       <<"C", "p", "E", "1">> >>
\* "EEL 4751 PR: EEL  3801C, EEL 3801C." under "CpE"
EntryEEL4751 ==
    << <<"E", "E", "L", " ", "4", "7", "5", "1", " ", "P", "R", ":", " ",
         "E", "E", "L", " ", " ", "3", "8", "0", "1", "C", ",", " ", "E",
         "E", "L", " ", "3", "8", "0", "1", "C", ".">>,
       <<"C", "p", "E">> >>
\* "EEL 3802" under "EE2,CpE"
EntryEEL3802 ==
    << <<"E", "E", "L", " ", "3", "8", "0", "2">>,
       <<"E", "E", "2", ",", "C", "p", "E">> >>

Entries ==
    {EntryEEL3801C, EntryEEL4750, EntryEEL5000, EntryEEE4999, EntryEEL4751,
     EntryEEL3802}

CatalogTexts ==
    {JoinLines(Concat(es)) : es \in SeqsUpTo(Entries, MaxCourses)}

\* The majors a request may name
RequestMajors == {<<"E", "E">>, <<"C", "p", "E">>}

\* "eel 3801c", " EEL  4750 " and "EEL4750C"
CompletedCodes ==
    { <<"e", "e", "l", " ", "3", "8", "0", "1", "c">>,
      <<" ", "E", "E", "L", " ", " ", "4", "7", "5", "0", " ">>,
      <<"E", "E", "L", "4", "7", "5", "0", "C">> }

CompletedLists == SeqsUpTo(CompletedCodes, MaxCompleted)

\* "undergraduate", "Graduate" and "all"
Levels ==
    { LevelUndergraduate,
      <<"G", "r", "a", "d", "u", "a", "t", "e">>,
      <<"a", "l", "l">> }

Init ==
    /\ text \in CatalogTexts
    /\ lines = <<>>
    /\ i = 0
    /\ current_course = EmptyCourse
    /\ current_majors = <<>>
    /\ courses = <<>>
    /\ description = <<>>
    /\ prereqs = <<>>
    /\ NoRequest
    /\ NoCli
    /\ NoHandlers
    /\ pc = "load"

\* course_api.py lines 18-26, load_course_data with the cache empty: the
\* catalog is parsed from the text of the document
LoadCatalog ==
    /\ pc = "load"
    /\ courses' = parse_courses(text)
    /\ pc' = "ready"
    /\ UNCHANGED <<text, lines, i, current_course, current_majors,
                   prereqVars, requestVars, cliVars, cacheVars>>

\* course_api.py lines 95-98, get_courses_by_major
SearchByMajor ==
    /\ pc = "ready"
    /\ \E m \in RequestMajors :
          /\ req_major' = m
          /\ matching_courses' = search_courses_by_major(courses, m)
    /\ op' = "search"
    /\ pc' = "served"
    /\ UNCHANGED <<parseVars, prereqVars, req_completed, req_level,
                   records, eligible, graph, course_list, stats, cliVars,
                   cacheVars>>

\* course_api.py lines 195-207, check_eligibility: the courses are narrowed
\* to the major when one is given, and get_eligible_courses is called with
\* its own major parameter left at None. The level is the academic_level of
\* the request body: a str, or None when the body says null. An exception
\* raised on the way leaves the handler without a report.
CheckEligibility ==
    /\ pc = "ready"
    /\ \E m \in {None, <<"E", "E">>}, c \in CompletedLists,
          l \in Levels \cup {None} :
          LET cs == IF m # None /\ Truthy(m)
                    THEN search_courses_by_major(courses, m)
                    ELSE courses
              result == get_eligible_courses(cs, c, None, l)
          IN  /\ req_major' = m
              /\ req_completed' = c
              /\ req_level' = l
              /\ records' = cs
              /\ courses' = courses_after_report(courses, cs, c, None, l)
              /\ IF IsRaised(result)
                 THEN op' = "error" /\ eligible' = <<>>
                 ELSE op' = "eligible" /\ eligible' = result
    /\ pc' = "served"
    /\ UNCHANGED <<text, lines, i, current_course, current_majors, prereqVars,
                   matching_courses, graph, course_list, stats, cliVars,
                   cacheVars>>

\* The handler has returned its response: its locals are gone and the
\* catalog waits for the next request
Respond ==
    /\ pc = "served"
    /\ op' = "none"
    /\ req_major' = None
    /\ req_completed' = <<>>
    /\ req_level' = <<>>
    /\ records' = <<>>
    /\ matching_courses' = <<>>
    /\ eligible' = <<>>
    /\ graph' = EmptyGraph
    /\ course_list' = <<>>
    /\ stats' = NoStats
    /\ pc' = "ready"
    /\ UNCHANGED <<parseVars, prereqVars, cliVars, cacheVars>>

-----------------------------------------------------------------------------
(* What the requests are expected to return.                               *)

\* The major tags of a majors value: the valid tags that stand in it as a
\* whole item, between commas, blanks or the ends
TagsOf(majors) ==
    LET Delimiter(p) == p \notin DOMAIN majors
                        \/ majors[p] = ","
                        \/ majors[p] \in Whitespace
    IN  {t \in MajorAlternatives :
            \E p \in DOMAIN majors :
                /\ StartsWithAt(majors, p, t)
                /\ Delimiter(p - 1)
                /\ Delimiter(p + Len(t))}

\* C4 as claimed: search_courses_by_major returns exactly the records whose
\* set of major tags has the requested tag as a member, in the original
\* order.
C4_SearchByTagMembership ==
    op = "search" =>
        LET HasTag(course) == req_major \in TagsOf(course.majors)
        IN  matching_courses = SelectSeq(courses, HasTag)

\* The number a course code carries: its digits read as a decimal number
CodeNumber(code) ==
    LET IsDigit(c) == c \in DigitSet
        digits     == SelectSeq(code, IsDigit)
        Value(c)   == CHOOSE v \in 0..9 : DigitChars[v + 1] = c
    IN  1000 * Value(digits[1]) + 100 * Value(digits[2])
        + 10 * Value(digits[3]) + Value(digits[4])

\* The phrase stands somewhere in the text, letter case ignored
HasPhrase(s, phrase) == \E p \in DOMAIN s : HeaderAt(s, p, phrase)

\* C7: is_graduate_course is true exactly when the number of the course
\* code is at least 5000 or the description holds one of the six graduate
\* phrases, letter case ignored; it yields a boolean for every record of
\* the catalog.
C7_GraduateIffNumberOrPhrase ==
    /\ Cardinality(grad_indicators) = 6
    /\ \A k \in DOMAIN courses : is_graduate_course(courses[k]) \in BOOLEAN
    /\ \A k \in DOMAIN eligible :
          eligible[k].is_graduate =
              \/ CodeNumber(eligible[k].course_code) >= 5000
              \/ \E phrase \in grad_indicators :
                    HasPhrase(eligible[k].full_description, phrase)

\* A report holds a course that is graduate by its number alone and one
\* that is graduate by a phrase alone
C7_Witness ==
    /\ op = "eligible"
    /\ \E k \in DOMAIN eligible :
          /\ eligible[k].is_graduate
          /\ CodeNumber(eligible[k].course_code) = 5000
          /\ \A phrase \in grad_indicators :
                ~HasPhrase(eligible[k].full_description, phrase)
    /\ \E k \in DOMAIN eligible :
          /\ eligible[k].is_graduate
          /\ CodeNumber(eligible[k].course_code) < 5000

\* The words of a string (its runs of characters other than whitespace), in
\* upper case: two strings have the same words exactly when they are equal
\* once trimmed, whitespace-collapsed and uppercased
RECURSIVE Words(_)
Words(s) ==
    LET t == strip(s)
        blanks == {p \in DOMAIN t : t[p] \in Whitespace}
    IN  IF t = <<>> THEN <<>>
        ELSE IF blanks = {} THEN <<upper(t)>>
        ELSE <<upper(SubSeq(t, 1, Leftmost(blanks) - 1))>>
             \o Words(SubSeq(t, Leftmost(blanks), Len(t)))

\* The prerequisite matches some entry of the completed list
Completed(prereq) ==
    \E k \in DOMAIN req_completed : Words(prereq) = Words(req_completed[k])

\* C8: prereqs_met is true exactly when every extracted prerequisite
\* matches some completed course once both are trimmed, whitespace-collapsed
\* and uppercased; a course with no prerequisite is always met.
C8_MetIffAllCompleted ==
    op = "eligible" =>
        \A k \in DOMAIN eligible :
            /\ eligible[k].prerequisites =
                   parse_prerequisites(eligible[k].full_description)
            /\ eligible[k].prereqs_met =
                   \A j \in DOMAIN eligible[k].prerequisites :
                       Completed(eligible[k].prerequisites[j])
            /\ eligible[k].prerequisites = <<>> => eligible[k].prereqs_met

\* A report holds a course whose prerequisites are met by completed courses
\* written differently, and a course with no prerequisite
C8_Witness ==
    /\ op = "eligible"
    /\ \E k \in DOMAIN eligible :
          /\ eligible[k].prereqs_met
          /\ eligible[k].prerequisites # <<>>
          /\ \A j \in DOMAIN eligible[k].prerequisites :
                \A c \in DOMAIN req_completed :
                    eligible[k].prerequisites[j] # req_completed[c]
    /\ \E k \in DOMAIN eligible :
          eligible[k].prerequisites = <<>> /\ eligible[k].prereqs_met

\* C9: missing_prereqs is the subsequence of the prerequisites that match no
\* completed course, in the same order and with duplicates kept; codes that
\* differ by a suffix letter do not match.
C9_MissingIsUnmatchedSubsequence ==
    op = "eligible" =>
        \A k \in DOMAIN eligible :
            LET Unmatched(prereq) == ~Completed(prereq)
            IN  eligible[k].missing_prereqs =
                    SelectSeq(eligible[k].prerequisites, Unmatched)

\* A report holds a course with prerequisites EEL 4750 and EEL 4750C of
\* which only EEL 4750C is missing, and a course that misses the same code
\* twice, spelled as in its description
C9_Witness ==
    /\ op = "eligible"
    /\ \E k \in DOMAIN eligible :
          /\ Len(eligible[k].prerequisites) = 2
          /\ Len(eligible[k].missing_prereqs) = 1
          /\ eligible[k].missing_prereqs[1] = eligible[k].prerequisites[2]
          /\ SubSeq(eligible[k].prerequisites[2], 1, 8) = eligible[k].prerequisites[1]
    /\ \E k \in DOMAIN eligible :
          /\ Len(eligible[k].missing_prereqs) = 2
          /\ Words(eligible[k].missing_prereqs[1]) = Words(eligible[k].missing_prereqs[2])
          /\ eligible[k].missing_prereqs[1] # eligible[k].missing_prereqs[2]

\* The fields a report entry takes over from its record
RecordOf(entry) ==
    [course_code |-> entry.course_code,
     full_description |-> entry.full_description,
     majors |-> entry.majors]

\* C10: the report holds one entry per record that survives
\* filter_by_academic_level for the level given, in the order of the input;
\* a completed course is reported like any other.
C10_OneEntryPerSurvivor ==
    op = "eligible" =>
        LET survivors == filter_by_academic_level(records, req_level)
        IN  /\ Len(eligible) = Len(survivors)
            /\ \A k \in DOMAIN eligible : RecordOf(eligible[k]) = survivors[k]

\* A report of two entries, for a level that filtered nothing out of it,
\* holds a completed course whose own prerequisites are not met
C10_Witness ==
    /\ op = "eligible"
    /\ Len(eligible) = 2
    /\ eligible[1] # eligible[2]
    /\ \E k \in DOMAIN eligible :
          /\ Completed(eligible[k].course_code)
          /\ ~eligible[k].prereqs_met

\* The level is neither graduate nor undergraduate, letter case ignored
OtherLevel(level) ==
    level = None \/ lower(level) \notin {LevelGraduate, LevelUndergraduate}

\* C13 as claimed: an eligibility request whose level is any value other
\* than graduate or undergraduate, null included, raises no error and
\* reports every record it was given, unchanged and in order.
C13_OtherLevelPassesThrough ==
    (op \in {"eligible", "error"} /\ OtherLevel(req_level)) =>
        /\ op = "eligible"
        /\ Len(eligible) = Len(records)
        /\ \A k \in DOMAIN eligible : RecordOf(eligible[k]) = records[k]

-----------------------------------------------------------------------------
(* The command-line tool: grove.py and tech_elect_cli.py, main.            *)

\* The majors main answers with an empty list (grove.py line 406)
UnsupportedMajors == { <<"C", "S">>, <<"I", "T">> }

\* The values of --major the runs are made with: none, "EE" and "CS"
CliMajors == {None, <<"E", "E">>, <<"C", "S">>}

\* The command lines: -u and -g exclude each other (grove.py lines 333-338)
CliArgs ==
    {a \in [undergrad : BOOLEAN, graduate : BOOLEAN, major : CliMajors,
             stats : BOOLEAN] :
        ~(a.undergrad /\ a.graduate)}

\* The completed courses the runs are made with: no --course-history,
\* "EEL 3801C", "EEL 9999" (not in the catalog), "EEL 5000" (a graduate
\* course), and "eel 3801c" with " EEL  4750 "
CourseHistories ==
    { <<>>,
      << <<"E", "E", "L", " ", "3", "8", "0", "1", "C">> >>,
      << <<"E", "E", "L", " ", "9", "9", "9", "9">> >>,
      << <<"E", "E", "L", " ", "5", "0", "0", "0">> >>,
      << <<"e", "e", "l", " ", "3", "8", "0", "1", "c">>,
         <<" ", "E", "E", "L", " ", " ", "4", "7", "5", "0", " ">> >> }

\* grove.py lines 394-410: the filters main applies to the parsed catalog
apply_filters(all_courses, a) ==
    LET by_level ==
            IF a.undergrad
            THEN filter_by_academic_level(all_courses, LevelUndergraduate)
            ELSE IF a.graduate
                 THEN filter_by_academic_level(all_courses, LevelGraduate)
            ELSE all_courses
    IN  IF a.major # None /\ Truthy(a.major)
        THEN IF a.major \in UnsupportedMajors THEN <<>>
             ELSE search_courses_by_major(by_level, a.major)
        ELSE by_level

\* grove.py lines 173-181 and tech_elect_cli.py lines 138-146: the counts
\* display_stats prints under "Your Progress", for a non-empty completed
\* list only
display_stats(cs, completed) ==
    IF completed = <<>> THEN NoProgress
    ELSE LET eligible_courses ==
                 get_eligible_courses(cs, completed, None, LevelUndergraduate)
             eligible_count ==
                 Cardinality({k \in DOMAIN eligible_courses :
                                 eligible_courses[k].prereqs_met})
         IN  [printed |-> TRUE,
              completed |-> Len(completed),
              eligible_count |-> eligible_count,
              ineligible_count |->
                  Len(eligible_courses) - eligible_count - Len(completed)]

InitCli ==
    /\ text \in CatalogTexts
    /\ args \in CliArgs
    /\ filtered_courses = <<>>
    /\ course_history = <<>>
    /\ progress = NoProgress
    /\ lines = <<>>
    /\ i = 0
    /\ current_course = EmptyCourse
    /\ current_majors = <<>>
    /\ courses = <<>>
    /\ description = <<>>
    /\ prereqs = <<>>
    /\ NoRequest
    /\ NoHandlers
    /\ pc = "cli"

\* grove.py lines 374-391: all_courses = parse_courses(pdf_text), then the
\* completed courses are read from the course history, if one is given
CliLoad ==
    /\ pc = "cli"
    /\ courses' = parse_courses(text)
    /\ course_history' \in CourseHistories
    /\ pc' = "cli_loaded"
    /\ UNCHANGED <<text, lines, i, current_course, current_majors,
                   prereqVars, requestVars, args, filtered_courses, progress,
                   cacheVars>>

\* grove.py lines 394-410: the courses handed on to display_stats,
\* display_table and export_to_csv
CliFilter ==
    /\ pc = "cli_loaded"
    /\ filtered_courses' = apply_filters(courses, args)
    /\ pc' = "cli_filtered"
    /\ UNCHANGED <<parseVars, prereqVars, requestVars, args,
                   course_history, progress, cacheVars>>

\* grove.py lines 414-416: display_stats(filtered_courses,
\* completed_courses) when --stats is given
DisplayStats ==
    /\ pc = "cli_filtered"
    /\ args.stats
    /\ progress' = display_stats(filtered_courses, course_history)
    /\ pc' = "cli_stats"
    /\ UNCHANGED <<parseVars, prereqVars, requestVars, args, filtered_courses,
                   course_history, cacheVars>>

NextCli == CliLoad \/ CliFilter \/ DisplayStats

SpecCli == InitCli /\ [][NextCli]_vars

\* A course is graduate by its number or by a phrase of its description
GraduateByDefinition(course) ==
    \/ CodeNumber(course.course_code) >= 5000
    \/ \E phrase \in grad_indicators :
          HasPhrase(course.full_description, phrase)

\* a is b with some of its entries left out, the order kept
RECURSIVE IsSubsequence(_, _)
IsSubsequence(a, b) ==
    IF a = <<>> THEN TRUE
    ELSE IF b = <<>> THEN FALSE
    ELSE IF a[1] = b[1] THEN IsSubsequence(Tail(a), Tail(b))
    ELSE IsSubsequence(a, Tail(b))

\* The run filtered by level alone
LevelOnly == pc = "cli_filtered" /\ args.major = None

\* C11: with the level graduate, filter_by_academic_level returns every
\* record it was given, unchanged and in the same order.
C11_GraduateKeepsAll ==
    (LevelOnly /\ args.graduate) => filtered_courses = courses

\* A run with -g has kept a graduate course and a course that is not
C11_Witness ==
    /\ LevelOnly
    /\ args.graduate
    /\ \E j, k \in DOMAIN filtered_courses :
          /\ GraduateByDefinition(filtered_courses[j])
          /\ ~GraduateByDefinition(filtered_courses[k])

\* C12: with the level undergraduate, filter_by_academic_level returns
\* exactly the records that are not graduate, in the order of the input, so
\* the result is a subsequence of the result for the level graduate.
C12_UndergraduateKeepsNonGraduate ==
    (LevelOnly /\ args.undergrad) =>
        LET NotGraduate(course) == ~GraduateByDefinition(course)
        IN  /\ filtered_courses = SelectSeq(courses, NotGraduate)
            /\ \A k \in DOMAIN filtered_courses :
                  ~is_graduate_course(filtered_courses[k])
            /\ IsSubsequence(filtered_courses,
                             filter_by_academic_level(courses, LevelGraduate))

\* A run with -u has dropped a course that is graduate by a phrase of its
\* description and kept the other course
C12_Witness ==
    /\ LevelOnly
    /\ args.undergrad
    /\ Len(courses) = 2
    /\ Len(filtered_courses) = 1
    /\ \E k \in DOMAIN courses :
          /\ GraduateByDefinition(courses[k])
          /\ CodeNumber(courses[k].course_code) < 5000

\* C19 as claimed: run with -g, the tool hands on graduate courses only.
C19_GraduateFlagShowsGraduateOnly ==
    (pc = "cli_filtered" /\ args.graduate) =>
        \A k \in DOMAIN filtered_courses :
            GraduateByDefinition(filtered_courses[k])

-----------------------------------------------------------------------------
(* The dependency graphs of course_api.py.                                 *)

\* str.split(sep): the pieces of s between the occurrences of sep
RECURSIVE split(_, _)
split(s, sep) ==
    LET at == {p \in DOMAIN s : StartsWithAt(s, p, sep)}
    IN  IF at = {} THEN <<s>>
        ELSE LET p == CHOOSE q \in at : \A r \in at : q <= r
             IN  <<SubSeq(s, 1, p - 1)>>
                 \o split(SubSeq(s, p + Len(sep), Len(s)), sep)

\* Lines 46-55, 141-150 and 179-188: the node with the given id and group
\* made from a course
graph_node(id, course, group) ==
    LET p == number_match(id)
        n == IF Len(course.full_description) < 200
             THEN Len(course.full_description) ELSE 200
    IN  [id |-> id,
         label |-> id,
         title |-> SubSeq(course.full_description, 1, n) \o <<".", ".", ".">>,
         majors |-> split(course.majors, <<",", " ">>),
         prerequisites |-> parse_prerequisites(course.full_description),
         is_graduate |-> is_graduate_course(course),
         level |-> IF p > 0 THEN int(SubSeq(id, p, p + 3)) ELSE 4000,
         group |-> group]

\* Lines 54 and 149: the group of the node of a listed course
level_group(course) ==
    IF is_graduate_course(course) THEN "graduate" ELSE "undergraduate"

\* Lines 67-71 and 162-166
graph_edge(prereq, course) ==
    [from |-> prereq, to |-> course.course_code, arrows |-> "to"]

\* Lines 60 and 156: {course['course_code'] for course in courses}
codes_of(cs) == {cs[k].course_code : k \in DOMAIN cs}

\* Lines 64-72 without the test of line 66: an edge for every prerequisite
RECURSIVE edges_of_NoCodesTest(_, _, _, _)
edges_of_NoCodesTest(course, course_prereqs, k, course_codes) ==
    IF k > Len(course_prereqs) THEN <<>>
    ELSE <<graph_edge(course_prereqs[k], course)>>
         \o edges_of_NoCodesTest(course, course_prereqs, k + 1, course_codes)

\* Lines 64-72: the edges of one course, from its k-th prerequisite on
RECURSIVE edges_of(_, _, _, _)
edges_of(course, course_prereqs, k, course_codes) ==
    IF k > Len(course_prereqs) THEN <<>>
    ELSE IF course_prereqs[k] \in course_codes
         THEN <<graph_edge(course_prereqs[k], course)>>
              \o edges_of(course, course_prereqs, k + 1, course_codes)
         ELSE edges_of(course, course_prereqs, k + 1, course_codes)

\* Lines 62-72: the edges of the courses from the k-th on
RECURSIVE edges_from(_, _, _)
edges_from(cs, k, course_codes) ==
    IF k > Len(cs) THEN <<>>
    ELSE edges_of(cs[k], parse_prerequisites(cs[k].full_description), 1,
                  course_codes)
         \o edges_from(cs, k + 1, course_codes)

\* create_course_graph, lines 28-74, on the cached courses
create_course_graph(cs) ==
    [nodes |-> [k \in DOMAIN cs |->
                   graph_node(cs[k].course_code, cs[k], level_group(cs[k]))],
     edges |-> edges_from(cs, 1, codes_of(cs))]

\* Line 171: the index of the first course with the given code, 0 for the
\* None that next() returns when there is none
prereq_course_index(all_courses, prereq) ==
    LET at == {k \in DOMAIN all_courses : all_courses[k].course_code = prereq}
    IN  IF at = {} THEN 0 ELSE CHOOSE k \in at : \A m \in at : k <= m

\* Lines 160-190 without the test of line 161: an edge for every
\* prerequisite
add_prereq_NoCatalogTest(g, prereq, course, all_courses) ==
    LET k == prereq_course_index(all_courses, prereq)
        with_edge == [g EXCEPT !.edges = Append(@, graph_edge(prereq, course))]
    IN  IF prereq \notin g.filtered_codes /\ k # 0
        THEN [with_edge EXCEPT
                 !.nodes = Append(@, graph_node(prereq, all_courses[k],
                                                "prerequisite")),
                 !.filtered_codes = @ \cup {prereq}]
        ELSE with_edge

\* Lines 160-190 without line 190: the code of the added node is not
\* remembered
add_prereq_CodeNotRemembered(g, prereq, course, all_courses) ==
    LET k == prereq_course_index(all_courses, prereq)
        with_edge == [g EXCEPT !.edges = Append(@, graph_edge(prereq, course))]
    IN  IF prereq \notin codes_of(all_courses) THEN g
        ELSE IF prereq \notin g.filtered_codes /\ k # 0
             THEN [with_edge EXCEPT
                      !.nodes = Append(@, graph_node(prereq, all_courses[k],
                                                     "prerequisite"))]
        ELSE with_edge

\* Lines 160-190: the graph and the set filtered_codes after one
\* prerequisite of a course has been handled
add_prereq(g, prereq, course, all_courses) ==
    LET k == prereq_course_index(all_courses, prereq)
        with_edge == [g EXCEPT !.edges = Append(@, graph_edge(prereq, course))]
    IN  IF prereq \notin codes_of(all_courses) THEN g
        ELSE IF prereq \notin g.filtered_codes /\ k # 0
             THEN [with_edge EXCEPT
                      !.nodes = Append(@, graph_node(prereq, all_courses[k],
                                                     "prerequisite")),
                      !.filtered_codes = @ \cup {prereq}]
        ELSE with_edge

\* Lines 159-190: the prerequisites of one course, from the k-th on
RECURSIVE add_prereqs(_, _, _, _, _)
add_prereqs(g, course_prereqs, k, course, all_courses) ==
    IF k > Len(course_prereqs) THEN g
    ELSE add_prereqs(add_prereq(g, course_prereqs[k], course, all_courses),
                     course_prereqs, k + 1, course, all_courses)

\* Lines 158-190: the loop over the filtered courses, from the k-th on
RECURSIVE add_edges(_, _, _, _)
add_edges(g, filtered, k, all_courses) ==
    IF k > Len(filtered) THEN g
    ELSE add_edges(add_prereqs(g,
                               parse_prerequisites(filtered[k].full_description),
                               1, filtered[k], all_courses),
                   filtered, k + 1, all_courses)

\* get_course_graph_by_major, lines 119-192, on the cached courses
get_course_graph_by_major(all_courses, major) ==
    LET filtered == search_courses_by_major(all_courses, major)
        listed == [nodes |-> [k \in DOMAIN filtered |->
                                 graph_node(filtered[k].course_code,
                                            filtered[k],
                                            level_group(filtered[k]))],
                   edges |-> <<>>,
                   filtered_codes |-> codes_of(filtered)]
        g == add_edges(listed, filtered, 1, all_courses)
    IN  [nodes |-> g.nodes, edges |-> g.edges]

\* The largest catalog the graphs are built from, in courses
MaxGraphCourses == 3

\* "EEL 3801C" under "CpE"
GraphEntryEEL3801C ==
    << <<"E", "E", "L", " ", "3", "8", "0", "1", "C">>,
       <<"C", "p", "E">> >>
\* "EEL 3801C Lab" under "EE": the same code in another record
GraphEntryEEL3801CLab ==
    << <<"E", "E", "L", " ", "3", "8", "0", "1", "C", " ", "L", "a", "b">>,
       <<"E", "E">> >>
\* "EEL 4750 PR: EEL 3801C, EEL 3801C." under "EE": a code named twice
GraphEntryEEL4750 ==
    << <<"E", "E", "L", " ", "4", "7", "5", "0", " ", "P", "R", ":", " ",
         "E", "E", "L", " ", "3", "8", "0", "1", "C", ",", " ",
         "E", "E", "L", " ", "3", "8", "0", "1", "C", ".">>,
       <<"E", "E">> >>
\* "EEL 5000 PR: EEL 3801C, EEL  4750, EEE 3307." under "EE": the second
\* code is written with two spaces
GraphEntryEEL5000 ==
    << <<"E", "E", "L", " ", "5", "0", "0", "0", " ", "P", "R", ":", " ",
         "E", "E", "L", " ", "3", "8", "0", "1", "C", ",", " ",
         "E", "E", "L", " ", " ", "4", "7", "5", "0", ",", " ",
         "E", "E", "E", " ", "3", "3", "0", "7", ".">>,
       <<"E", "E">> >>

GraphEntries ==
    {GraphEntryEEL3801C, GraphEntryEEL3801CLab, GraphEntryEEL4750,
     GraphEntryEEL5000}

GraphCatalogTexts ==
    {JoinLines(Concat(es)) : es \in SeqsUpTo(GraphEntries, MaxGraphCourses)}

InitGraph ==
    /\ text \in GraphCatalogTexts
    /\ lines = <<>>
    /\ i = 0
    /\ current_course = EmptyCourse
    /\ current_majors = <<>>
    /\ courses = <<>>
    /\ description = <<>>
    /\ prereqs = <<>>
    /\ NoRequest
    /\ NoCli
    /\ NoHandlers
    /\ pc = "load"

\* course_api.py lines 113-117, get_course_graph
CourseGraph ==
    /\ pc = "ready"
    /\ graph' = create_course_graph(courses)
    /\ records' = courses
    /\ req_major' = None
    /\ op' = "graph"
    /\ pc' = "served"
    /\ UNCHANGED <<parseVars, prereqVars, req_completed, req_level,
                   matching_courses, eligible, course_list, stats, cliVars,
                   cacheVars>>

\* course_api.py lines 119-192, get_course_graph_by_major; records keeps
\* the filtered_courses of line 123
CourseGraphByMajor ==
    /\ pc = "ready"
    /\ \E m \in RequestMajors :
          /\ req_major' = m
          /\ records' = search_courses_by_major(courses, m)
          /\ graph' = get_course_graph_by_major(courses, m)
    /\ op' = "graph"
    /\ pc' = "served"
    /\ UNCHANGED <<parseVars, prereqVars, req_completed, req_level,
                   matching_courses, eligible, course_list, stats, cliVars,
                   cacheVars>>

NextGraph == LoadCatalog \/ CourseGraph \/ CourseGraphByMajor \/ Respond

SpecGraph == InitGraph /\ [][NextGraph]_vars

\* course_api.py lines 83-89: the entry of one course in the course list
course_entry(course) ==
    [code |-> course.course_code,
     majors |-> split(course.majors, <<",", " ">>),
     description |-> course.full_description,
     prerequisites |-> parse_prerequisites(course.full_description),
     is_graduate |-> is_graduate_course(course)]

\* course_api.py lines 81-90: the course list of the catalog
get_courses(cs) == [k \in DOMAIN cs |-> course_entry(cs[k])]

\* course_api.py lines 208-218: the entry of one reported course in the
\* response of check_eligibility
result_entry(course) ==
    [code |-> course.course_code,
     majors |-> split(course.majors, <<",", " ">>),
     description |-> course.full_description,
     prerequisites |-> course.prerequisites,
     prereqs_met |-> course.prereqs_met,
     missing_prereqs |-> course.missing_prereqs,
     is_graduate |-> course.is_graduate]

\* course_api.py lines 241-245: the keys the majors string of a course adds
\* to major_counts, one for each piece between ", "
major_keys(course) ==
    LET majors == split(course.majors, <<",", " ">>)
    IN  [j \in DOMAIN majors |-> strip(majors[j])]

\* course_api.py lines 229-252: the statistics of the catalog; major_counts
\* maps each key to the number of times the loop of line 242 met it
get_statistics(cs) ==
    LET met  == UNION {{<<k, j>> : j \in DOMAIN major_keys(cs[k])} :
                          k \in DOMAIN cs}
        keys == {major_keys(cs[p[1]])[p[2]] : p \in met}
    IN  [total_courses |-> Len(cs),
         undergraduate_courses |->
             Cardinality({k \in DOMAIN cs : ~is_graduate_course(cs[k])}),
         graduate_courses |->
             Cardinality({k \in DOMAIN cs : is_graduate_course(cs[k])}),
         major_counts |->
             [key \in keys |->
                 Cardinality({p \in met :
                                 major_keys(cs[p[1]])[p[2]] = key})]]

\* course_api.py lines 76-92, get_courses
GetCourses ==
    /\ pc = "ready"
    /\ course_list' = get_courses(courses)
    /\ records' = courses
    /\ req_major' = None
    /\ op' = "courses"
    /\ pc' = "served"
    /\ UNCHANGED <<parseVars, prereqVars, req_completed, req_level,
                   matching_courses, eligible, graph, stats, cliVars,
                   cacheVars>>

\* course_api.py lines 224-254, get_statistics
GetStatistics ==
    /\ pc = "ready"
    /\ stats' = get_statistics(courses)
    /\ records' = courses
    /\ req_major' = None
    /\ op' = "stats"
    /\ pc' = "served"
    /\ UNCHANGED <<parseVars, prereqVars, req_completed, req_level,
                   matching_courses, eligible, graph, course_list, cliVars,
                   cacheVars>>

\* The requests served from the loaded catalog, in any order
Next ==
    \/ LoadCatalog
    \/ SearchByMajor
    \/ CheckEligibility
    \/ CourseGraph
    \/ CourseGraphByMajor
    \/ GetCourses
    \/ GetStatistics
    \/ Respond

Spec == Init /\ [][Next]_vars

\* The catalog is in the cache and requests are being served
Loaded == pc \in {"ready", "served"}

\* C21: once parse_courses has returned, no request changes the catalog:
\* its length, its order and the course_code, majors and full_description
\* of every record stay as they were, and no record gains a field; the
\* eligibility fields are in the entries of the report only.
C21_CatalogNeverChanges ==
    [][Loaded =>
         /\ courses' = courses
         /\ \A k \in DOMAIN courses' :
               DOMAIN courses'[k] =
                   {"course_code", "full_description", "majors"}]_vars

\* A report with the eligibility fields was made from a catalog of two
\* records, which is still the catalog that was parsed
C21_Witness ==
    /\ op = "eligible"
    /\ Len(eligible) = 2
    /\ \A k \in DOMAIN eligible : "prereqs_met" \in DOMAIN eligible[k]
    /\ courses = parse_courses(text)

\* A graph was built for the courses of one major
ByMajor == op = "graph" /\ req_major # None

\* The codes of the records of the full catalog, and of the subset the
\* graph was asked for
FullCodes == {courses[k].course_code : k \in DOMAIN courses}
SubsetCodes == {records[k].course_code : k \in DOMAIN records}

\* The prerequisite codes extracted from a record
PrereqCodes(record) ==
    LET extracted == parse_prerequisites(record.full_description)
    IN  {extracted[j] : j \in DOMAIN extracted}

\* The nodes of the graph that carry the given code
NodesWithId(code) == {k \in DOMAIN graph.nodes : graph.nodes[k].id = code}

\* The prerequisite codes of the subset's records that name a record of the
\* full catalog outside the subset
OutsideCodes ==
    {p \in UNION {PrereqCodes(records[k]) : k \in DOMAIN records} :
        p \in FullCodes \ SubsetCodes}

\* C14: in the graph of a major, the source of every edge is the code of a
\* record of the full catalog; a prerequisite code that is the code of no
\* record gets no edge and no node, and the request raises no error.
C14_EdgesFromCatalogOnly ==
    ByMajor =>
        /\ \A k \in DOMAIN graph.edges : graph.edges[k].from \in FullCodes
        /\ \A r \in DOMAIN records :
              \A p \in PrereqCodes(records[r]) \ FullCodes :
                  /\ \A k \in DOMAIN graph.edges : graph.edges[k].from # p
                  /\ NodesWithId(p) = {}

\* A graph of a major holds edges, and a record of the subset names a
\* prerequisite that is in the catalog and one that is not
C14_Witness ==
    /\ ByMajor
    /\ graph.edges # <<>>
    /\ \E r \in DOMAIN records :
          /\ PrereqCodes(records[r]) \ FullCodes # {}
          /\ PrereqCodes(records[r]) \cap FullCodes # {}

\* C15: in the graph of a major, each prerequisite code outside the subset
\* and inside the full catalog is the id of exactly one node, of group
\* prerequisite, however often it is named; no other node has that group,
\* and the records of the subset come first with their level as group.
C15_OnePrerequisiteNodePerOutsideCode ==
    ByMajor =>
        /\ \A p \in OutsideCodes :
              /\ Cardinality(NodesWithId(p)) = 1
              /\ \A k \in NodesWithId(p) :
                    graph.nodes[k].group = "prerequisite"
        /\ \A k \in DOMAIN graph.nodes :
              graph.nodes[k].group = "prerequisite" =>
                  graph.nodes[k].id \in OutsideCodes
        /\ Len(graph.nodes) >= Len(records)
        /\ \A k \in DOMAIN records :
              /\ graph.nodes[k].id = records[k].course_code
              /\ graph.nodes[k].group \in {"graduate", "undergraduate"}

\* A graph of a major holds a prerequisite node whose code is named by two
\* records of the subset, twice by one of them
C15_Witness ==
    /\ ByMajor
    /\ \E p \in OutsideCodes :
          /\ \E j, k \in DOMAIN records :
                /\ j # k
                /\ p \in PrereqCodes(records[j])
                /\ p \in PrereqCodes(records[k])
          /\ Cardinality({k \in DOMAIN graph.edges :
                             graph.edges[k].from = p}) >= 3

\* C16 as claimed: no two nodes of a graph carry the same course code.
C16_NodeIdsUnique ==
    op = "graph" =>
        \A j, k \in DOMAIN graph.nodes :
            graph.nodes[j].id = graph.nodes[k].id => j = k

\* C17 as claimed: for every record of the subset and every prerequisite
\* extracted from it that equals the code of a record of the full catalog,
\* both whitespace-collapsed and uppercased, the graph holds the edge from
\* that prerequisite to the record.
C17_EdgeForEveryNormalizedMatch ==
    ByMajor =>
        \A r \in DOMAIN records :
            \A p \in PrereqCodes(records[r]) :
                (\E c \in FullCodes : Words(c) = Words(p)) =>
                    \E k \in DOMAIN graph.edges :
                        /\ Words(graph.edges[k].from) = Words(p)
                        /\ graph.edges[k].to = records[r].course_code

\* C18 as claimed: no (from, to) pair occurs twice among the edges of a
\* graph.
C18_EdgesFormSet ==
    op = "graph" =>
        \A j, k \in DOMAIN graph.edges :
            (/\ graph.edges[j].from = graph.edges[k].from
             /\ graph.edges[j].to = graph.edges[k].to) => j = k

-----------------------------------------------------------------------------
(* load_course_data called by concurrent request handlers.                 *)

\* The number of request handlers that run at the same time (the server of
\* course_api.py line 267 serves each request in a thread of its own)
MaxHandlers == 2

Handlers == 1..MaxHandlers

\* A handler that has not called load_course_data yet
IdleHandler == [pc |-> "call", pdf_text |-> <<>>, courses |-> NoneCourses]

InitLoad ==
    /\ text \in CatalogTexts
    /\ course_data = NoneCourses
    /\ handler = [h \in Handlers |-> IdleHandler]
    /\ parse_calls = 0
    /\ lines = <<>>
    /\ i = 0
    /\ current_course = EmptyCourse
    /\ current_majors = <<>>
    /\ courses = <<>>
    /\ description = <<>>
    /\ prereqs = <<>>
    /\ NoRequest
    /\ NoCli
    /\ pc = "serving"

\* Line 21: `if course_data is None:`
TestCache(h) ==
    /\ handler[h].pc = "call"
    /\ handler' = [handler EXCEPT ![h].pc =
                      IF course_data = NoneCourses THEN "extract" ELSE "return"]
    /\ UNCHANGED <<course_data, parse_calls, parseVars, prereqVars,
                   requestVars, cliVars, pc>>

\* Lines 22-23: pdf_text = extract_courses_data(...)
ExtractText(h) ==
    /\ handler[h].pc = "extract"
    /\ handler' = [handler EXCEPT ![h].pc = "parse", ![h].pdf_text = text]
    /\ UNCHANGED <<course_data, parse_calls, parseVars, prereqVars,
                   requestVars, cliVars, pc>>

\* Lines 22-23 with the failure written to the cache as an empty list
ExtractFails_EmptyPlaceholder(h) ==
    /\ handler[h].pc = "extract"
    /\ handler' = [handler EXCEPT ![h].pc = "raised"]
    /\ course_data' = <<>>
    /\ UNCHANGED <<parse_calls, parseVars, prereqVars, requestVars, cliVars,
                   pc>>

\* Lines 22-23 when the document cannot be opened or read:
\* extract_courses_data raises (tech_elect_map.py line 6) and
\* load_course_data is left before line 24
ExtractFails(h) ==
    /\ handler[h].pc = "extract"
    /\ handler' = [handler EXCEPT ![h].pc = "raised"]
    /\ UNCHANGED <<course_data, parse_calls, parseVars, prereqVars,
                   requestVars, cliVars, pc>>

\* Lines 24-25: course_data = parse_courses(pdf_text)
ParseText(h) ==
    /\ handler[h].pc = "parse"
    /\ course_data' = parse_courses(handler[h].pdf_text)
    /\ parse_calls' = parse_calls + 1
    /\ handler' = [handler EXCEPT ![h].pc = "return"]
    /\ UNCHANGED <<parseVars, prereqVars, requestVars, cliVars, pc>>

\* Line 26: return course_data
ReturnCourses(h) ==
    /\ handler[h].pc = "return"
    /\ handler' = [handler EXCEPT ![h].pc = "loaded",
                                  ![h].courses = course_data]
    /\ UNCHANGED <<course_data, parse_calls, parseVars, prereqVars,
                   requestVars, cliVars, pc>>

NextLoad ==
    \E h \in Handlers :
        \/ TestCache(h)
        \/ ExtractText(h)
        \/ ExtractFails(h)
        \/ ParseText(h)
        \/ ReturnCourses(h)

SpecLoad == InitLoad /\ [][NextLoad]_vars

\* C20 as claimed: however the handlers that call load_course_data with
\* the cache empty interleave, the text is extracted and parsed once, and
\* no handler extracts the text after a parse has begun.
C20_ParsedOnce ==
    /\ parse_calls <= 1
    /\ Cardinality({h \in DOMAIN handler :
                       handler[h].pc \in {"parse", "return", "loaded"}
                       /\ handler[h].pdf_text # <<>>}) <= 1

-----------------------------------------------------------------------------
(* parse_courses and parse_prerequisites on one and the same string.       *)

\* Strings with a prerequisite header and no well-formed clause:
\* "PR: .", "Prerequisites:", "PR: EEL 47, 4750 EEL." and "EEL 4750\nPR:."
MalformedTexts ==
    { <<"P", "R", ":", " ", ".">>,
      <<"P", "r", "e", "r", "e", "q", "u", "i", "s", "i", "t", "e", "s",
        ":">>,
      <<"P", "R", ":", " ", "E", "E", "L", " ", "4", "7", ",", " ", "4", "7",
        "5", "0", " ", "E", "E", "L", ".">>,
      <<"E", "E", "L", " ", "4", "7", "5", "0", "\n", "P", "R", ":", ".">> }

InitText ==
    /\ text \in ParseTexts \cup MalformedTexts
    /\ description = text
    /\ lines = <<>>
    /\ i = 0
    /\ current_course = EmptyCourse
    /\ current_majors = <<>>
    /\ courses = <<>>
    /\ prereqs = <<>>
    /\ NoRequest
    /\ NoCli
    /\ NoHandlers
    /\ pc = "text"

\* A call of parse_courses(text), lines 17-62; lines keeps text.split('\n')
ParseCourses ==
    /\ pc = "text"
    /\ lines' = SplitLines(text)
    /\ courses' = parse_courses(text)
    /\ pc' = "extract"
    /\ UNCHANGED <<text, i, current_course, current_majors, prereqVars,
                   requestVars, cliVars, cacheVars>>

NextText == ParseCourses \/ ParsePrerequisites

SpecText == InitText /\ [][NextText]_vars

\* C22: parse_courses and parse_prerequisites return a list for every
\* string and raise nothing: the catalog is a list of records, empty when
\* the text has no course-code line or no major marker, and the
\* prerequisites are a list of codes, empty when no header has a clause.
C22_ParsersReturnLists ==
    /\ pc \in {"extract", "extracted"} =>
          /\ \A k \in DOMAIN courses :
                DOMAIN courses[k] = {"course_code", "full_description", "majors"}
          /\ Len(courses) <= Cardinality({k \in DOMAIN lines : Kind(k) = "course"})
          /\ (\/ \A k \in DOMAIN lines : Kind(k) # "course"
              \/ \A k \in DOMAIN lines : Kind(k) # "major") => courses = <<>>
    /\ pc = "extracted" =>
          /\ \A k \in DOMAIN prereqs :
                prereqs[k] # <<>> /\ Contains(description, prereqs[k])
          /\ (\A k \in DOMAIN HeadersByPriority : Matches(k) = {}) =>
                prereqs = <<>>

\* Both functions have returned an empty list for a string that holds a
\* prerequisite header and no course-code line under a major marker
C22_Witness ==
    /\ pc = "extracted"
    /\ text \in MalformedTexts
    /\ \E k \in DOMAIN HeadersByPriority : Occurrences(k) # {}
    /\ courses = <<>>
    /\ prereqs = <<>>

\* The string is a course code in normalized form: three uppercase
\* letters, one space, four digits and at most one uppercase letter
IsCourseCode(code) ==
    /\ Len(code) \in {8, 9}
    /\ \A k \in 1..3 : code[k] \in UpperSet
    /\ code[4] = " "
    /\ \A k \in 5..8 : code[k] \in DigitSet
    /\ Len(code) = 9 => code[9] \in UpperSet

\* C23 as claimed: every course_code parse_courses stores and every code
\* parse_prerequisites returns is in normalized form.
C23_CodesNormalized ==
    /\ \A k \in DOMAIN courses : IsCourseCode(courses[k].course_code)
    /\ \A k \in DOMAIN prereqs : IsCourseCode(prereqs[k])

\* The entries of a list
Entries_of(list) == {list[k] : k \in DOMAIN list}

\* The major tags of the payload of the last request: those of the course
\* list, of the graph nodes, of the eligibility response and the keys of the
\* per-major statistics
ReportedTags ==
    UNION ( {Entries_of(course_list[k].majors) : k \in DOMAIN course_list}
            \cup {Entries_of(graph.nodes[k].majors) : k \in DOMAIN graph.nodes}
            \cup {Entries_of(result_entry(eligible[k]).majors) :
                     k \in {n \in DOMAIN eligible : op = "eligible"}}
            \cup {DOMAIN stats.major_counts} )

\* C24: every major tag the course, graph and eligibility payloads report
\* for a course, and every key of the per-major statistics, is one of EE,
\* CpE, EE2, CpE1 and EE3, whatever major marker the catalog holds.
C24_ReportedTagsValid == ReportedTags \subseteq MajorAlternatives

\* test_prerequisites.py lines 74-79: the count printed as "Still need
\* prerequisites" for the course list and its report
still_need_prerequisites(cpe_courses, eligible_cpe) ==
    LET eligible_count ==
            Cardinality({k \in DOMAIN eligible_cpe :
                            eligible_cpe[k].prereqs_met})
    IN  Len(cpe_courses) - eligible_count

\* Some prerequisite of the course matches no entry of the completed list
NeedsPrerequisites(course) ==
    LET course_prereqs == parse_prerequisites(course.full_description)
    IN  \E j \in DOMAIN course_prereqs : ~Completed(course_prereqs[j])

\* C25: for a report made with the default academic level, the length of
\* the course list minus the number of reported courses with prereqs_met
\* true is the number of courses of the list that still need prerequisites.
C25_StillNeedIsUnmetCount ==
    (op = "eligible" /\ req_level = LevelUndergraduate) =>
        still_need_prerequisites(records, eligible) =
            Cardinality({k \in DOMAIN records :
                            NeedsPrerequisites(records[k])})

\* Some prerequisite of the course matches no entry of the completed list
\* of the command line
Unmet(course) ==
    LET course_prereqs == parse_prerequisites(course.full_description)
    IN  \E j \in DOMAIN course_prereqs :
           \A k \in DOMAIN course_history :
               Words(course_prereqs[j]) # Words(course_history[k])

\* C26: the "Need prerequisites" count display_stats prints is never
\* negative and is the number of listed courses whose prerequisites are not
\* met, for every non-empty completed list.
C26_NeedCountIsUnmetCount ==
    (pc = "cli_stats" /\ progress.printed) =>
        /\ progress.ineligible_count >= 0
        /\ progress.ineligible_count =
               Cardinality({k \in DOMAIN filtered_courses :
                               Unmet(filtered_courses[k])})

\* C27: every edge of a produced graph, full or of one major, has both its
\* ends among the nodes of the same graph.
C27_EdgeEndsAreNodes ==
    op = "graph" =>
        \A j \in DOMAIN graph.edges :
            /\ \E k \in DOMAIN graph.nodes :
                   graph.nodes[k].id = graph.edges[j].from
            /\ \E k \in DOMAIN graph.nodes :
                   graph.nodes[k].id = graph.edges[j].to

\* The graph of a major has an edge from a node added for a prerequisite
\* outside the major, and its records name a code that is the code of no
\* record
C27_Witness ==
    /\ op = "graph"
    /\ graph.edges # <<>>
    /\ \E k \in DOMAIN records :
           PrereqCodes(records[k]) \ FullCodes # {}
    /\ req_major # None
    /\ \E j \in DOMAIN graph.edges, k \in DOMAIN graph.nodes :
           /\ graph.nodes[k].id = graph.edges[j].from
           /\ graph.nodes[k].group = "prerequisite"

\* Three larger catalogs: the five courses with prerequisites of Entries in
\* one order, the same in the opposite order, and two courses
LargeCatalogTexts ==
    { JoinLines(Concat(<<EntryEEL3801C, EntryEEL4750, EntryEEL5000,
                         EntryEEE4999, EntryEEL4751>>)),
      JoinLines(Concat(<<EntryEEL4751, EntryEEE4999, EntryEEL5000,
                         EntryEEL4750, EntryEEL3801C>>)),
      JoinLines(Concat(<<EntryEEL4750, EntryEEL3802>>)) }

InitLarge ==
    /\ text \in LargeCatalogTexts
    /\ lines = <<>>
    /\ i = 0
    /\ current_course = EmptyCourse
    /\ current_majors = <<>>
    /\ courses = <<>>
    /\ description = <<>>
    /\ prereqs = <<>>
    /\ NoRequest
    /\ NoCli
    /\ NoHandlers
    /\ pc = "load"

\* The requests served from a larger catalog, in any order
SpecLarge == InitLarge /\ [][Next]_vars

\* The report of the request's records and level under another completed
\* list
ReportUnder(completed) ==
    get_eligible_courses(records, completed, None, req_level)

\* C28: eligibility is monotone in the completed list: when every entry of
\* the completed list of a report occurs in a second list, every course
\* with prereqs_met true in the report has it true under the second list,
\* and its missing_prereqs under the second list is a subsequence of the
\* reported one; a list with the same entries in another order or
\* repeated gives the same report.
C28_MonotoneInCompleted ==
    op = "eligible" =>
        \A B \in CompletedLists :
            LET under == ReportUnder(B)
            IN  /\ Entries_of(req_completed) \subseteq Entries_of(B) =>
                       /\ Len(under) = Len(eligible)
                       /\ \A k \in DOMAIN eligible :
                              /\ eligible[k].prereqs_met =>
                                     under[k].prereqs_met
                              /\ IsSubsequence(under[k].missing_prereqs,
                                               eligible[k].missing_prereqs)
                /\ Entries_of(req_completed) = Entries_of(B) =>
                       under = eligible

\* A report made with a completed course has a course with a missing
\* prerequisite that a longer completed list meets
C28_Witness ==
    /\ op = "eligible"
    /\ req_completed # <<>>
    /\ \E k \in DOMAIN eligible, B \in CompletedLists :
           /\ ~eligible[k].prereqs_met
           /\ Entries_of(req_completed) \subseteq Entries_of(B)
           /\ ReportUnder(B)[k].prereqs_met

\* C29: a call of load_course_data that fails raises to its caller, returns
\* nothing and leaves the cache as it was, unset if it was unset; a call
\* that finds the cache unset attempts the load; the cache is only ever
\* unset or the parsed catalog, and once it holds a catalog no call
\* replaces it with different contents.
C29_FailedLoadLeavesCacheUnset ==
    [][ /\ \A h \in Handlers :
              /\ (handler[h].pc # "raised" /\ handler'[h].pc = "raised") =>
                     /\ course_data' = course_data
                     /\ handler'[h].courses = NoneCourses
              /\ (handler[h].pc = "call" /\ handler'[h].pc # "call"
                      /\ course_data = NoneCourses) =>
                     handler'[h].pc = "extract"
        /\ course_data' \in {NoneCourses, parse_courses(text)}
        /\ course_data # NoneCourses => course_data' = course_data
      ]_vars

\* One call has failed with the cache unset and left it unset, and a later
\* call has loaded the catalog and returned it
C29_Witness ==
    \E h, g \in Handlers :
        /\ handler[h].pc = "raised"
        /\ handler[g].pc = "loaded"
        /\ handler[g].courses = parse_courses(text)
        /\ handler[g].courses # <<>>
        /\ course_data = handler[g].courses
        /\ parse_calls = 1

\* The line has "Page", "Dept. of" or "Last Updated" somewhere in it
IsBoilerplate(raw) ==
    \E mark \in PageHeaderMarks :
        \E p \in DOMAIN raw : StartsWithAt(raw, p, mark)

\* The line is no boilerplate and begins with a course code
IsCourseCodeLine(raw) ==
    ~IsBoilerplate(raw) /\ course_match(strip(raw)) > 0

\* The codes the course-code lines of the text begin with, in the order of
\* the text, boilerplate lines left out
CodesOfLines(ls) ==
    LET code_lines == SelectSeq(ls, IsCourseCodeLine)
    IN  [k \in DOMAIN code_lines |->
            SubSeq(strip(code_lines[k]), 1, course_match(strip(code_lines[k])))]

\* C30: a line with "Page", "Dept. of" or "Last Updated" in it changes
\* neither the current majors, nor the record in progress, nor the output,
\* even when it begins with a course code or would continue a record; and
\* the codes of the output are codes of the remaining course-code lines,
\* in source order, at most one record for each line.
C30_BoilerplateContributesNothing ==
    [][ /\ (AtLine /\ IsBoilerplate(lines[i])) =>
              UNCHANGED <<courses, current_course, current_majors>>
        /\ IsSubsequence([k \in DOMAIN courses' |-> courses'[k].course_code],
                         CodesOfLines(lines'))
      ]_vars

\* A run has ended on a text where a page header that begins with a course
\* code follows a course-code line: the one record of the output is that of
\* the course-code line, with nothing of the page header in it
C30_Witness ==
    /\ pc = "parsed"
    /\ Len(lines) = 3
    /\ lines[1] = LineEEL3801C
    /\ lines[2] = LinePage
    /\ Len(courses) = 1
    /\ courses[1].course_code = LineEEL3801C
    /\ courses[1].full_description = LineEEL3801C

====
